---- MODULE Spec2Model ----
(***************************************************************************)
(* Model of the pynanomodem example programs:                              *)
(*   examples/basic.py          the event-driven control loop (Spec)       *)
(*   examples/large_message.py  the chunked large transfer (SpecLarge)     *)
(*   reconfigure_hearbeat       the pure decoder (SpecReconf)              *)
(* The modem capability (package pynanomodem) is not part of the sources;  *)
(* its queues, event mask and unsolicited-notification queue are modelled  *)
(* from the interface description and driven by environment actions.       *)
(***************************************************************************)
EXTENDS Integers, Sequences, FiniteSets, TLC

\* ---------------------------------------------------------------- bounds
\* wall clock (time.time()) when the program starts; every last_* timestamp
\* starts at 0, so every timer is due on the first tick
StartTime == 100000
\* granularity by which the wall clock advances
TimeStep == 60
\* the clock stops advancing after StartTime + MaxElapsed
MaxElapsed == 120
\* cap of heartbeat_count
MaxCount == 3
\* number of MT messages and unsolicited notifications that arrive in a run
MaxArrivals == 2
\* number of message handles the modem hands out for MO submissions
MaxMo == 2

\* the clock of the large transfer stops after StartTime + MaxElapsedLarge
MaxElapsedLarge == 12
\* number of message handles the modem hands out during a large transfer
MaxMoLarge == 3
\* longest data of a large transfer
MaxFileSize == 3
\* largest chunk size of a large transfer
MaxChunkSize == 2
\* longest payload given to reconfigure_hearbeat
MaxPayloadLen == 5
\* number of unsolicited notifications the producer appends at arbitrary points
MaxUrcs == 3
\* how far the data given to iter_chunks_with_header alone exceeds the capacity
\* of MaxChunks chunks
MaxExcess == 2

\* ---------------------------------------------------------------- program constants
HEARTBEAT_INTERVAL == 0
PollInterval == 5
SleepTime == 1
MaxChunks == 255
MaxHeartbeatInterval == 86400

VARIABLES
    pc,                             \* position of the program
    now,                            \* time.time()
    connected,                      \* the modem capability is connected
    everConnected,                  \* history: connect() succeeded
    disconnectCalls,                \* history: number of disconnect() calls
    events_set,                     \* basic.py:116
    urc,                            \* basic.py:133 (None: nothing was dequeued)
    heartbeat_interval,             \* basic.py:97
    last_notification_check_time,   \* basic.py:125
    last_heartbeat_time,            \* basic.py:126
    heartbeat_count,                \* basic.py:127
    events,                         \* basic.py:129
    ei,                             \* position of `for event in events`
    rx_queue,                       \* basic.py:171
    mi,                             \* position of `for i, _ in enumerate(rx_queue)`
    urcQueue,                       \* modem._unsolicited_queue
    activeMask,                     \* events pending in the modem
    txAllowed,                      \* modem.is_transmit_allowed()
    mtQueue,                        \* device-side MT queue
    moQueue,                        \* device-side MO queue
    nextMt,                         \* next MT message handle of the modem
    nextMo,                         \* next MO message handle of the modem
    urcCount,                       \* notifications enqueued so far
    hbSubmits,                      \* history: mo_message_send calls of the heartbeat
    hbSkips,                        \* history: due heartbeats skipped
    lastSubmitTime,                 \* history: time of the last heartbeat submission
    deletedMt,                      \* history: handles given to mt_message_delete
    deletedMo,                      \* history: handles given to mo_message_delete
    doubleDelete,                   \* history: a delete was issued twice for a handle
    refetched,                      \* history: a deleted handle was fetched again
    tickInterval,                   \* history: heartbeat_interval at the start of the tick
    everTerminal,                   \* history: MO handles that reached a terminal state
    data,                           \* large_message.py:63
    chunk_size,                     \* large_message.py:66
    chunk_count,                    \* large_message.py:67
    chunk,                          \* large_message.py:70 (the frame of the for statement)
    msg_meta,                       \* large_message.py:74 (0 is None)
    chunkHandles,                   \* history: the handle returned for each chunk sent
    arg_payload,                    \* reconfigure_hearbeat: payload
    arg_old,                        \* reconfigure_hearbeat: old_interval
    readings,                       \* build_heartbeat: what the getters of modem return
    result                          \* value returned by the function called alone (-1 before the call)

vars == <<pc, now, connected, everConnected, disconnectCalls, events_set, urc,
          heartbeat_interval, last_notification_check_time, last_heartbeat_time,
          heartbeat_count, events, ei, rx_queue, mi, urcQueue, activeMask,
          txAllowed, mtQueue, moQueue, nextMt, nextMo, urcCount, hbSubmits, hbSkips,
          lastSubmitTime, deletedMt, deletedMo, doubleDelete, refetched,
          tickInterval, everTerminal, data, chunk_size, chunk_count, chunk, msg_meta,
          chunkHandles, arg_payload, arg_old, readings, result>>

\* ---------------------------------------------------------------- event model
MT_RECEIVED == "MESSAGE_MT_RECEIVED"
MO_COMPLETE == "MESSAGE_MO_COMPLETE"
NETWORK_REGISTERED == "NETWORK_REGISTERED"
None == "None"

EventKinds == {NETWORK_REGISTERED, MO_COMPLETE, MT_RECEIVED}

\* raw unsolicited notifications the reader thread enqueues: of a message
\* event, of an event the loop ignores, and unrecognised content
UrcKinds == {MT_RECEIVED, NETWORK_REGISTERED, "garbage"}

\* parse_urc(raw) -> optional<EventNotification>
ParseUrcEvent(raw) == IF raw \in EventKinds THEN raw ELSE None

\* EventNotification.get_events(mask): the flags of the mask, in flag order
GetEvents(mask) ==
    (IF NETWORK_REGISTERED \in mask THEN <<NETWORK_REGISTERED>> ELSE <<>>) \o
    (IF MO_COMPLETE \in mask THEN <<MO_COMPLETE>> ELSE <<>>) \o
    (IF MT_RECEIVED \in mask THEN <<MT_RECEIVED>> ELSE <<>>)

\* MessageState and its is_complete() predicate
TX_READY == "TX_READY"
TX_COMPLETE == "TX_COMPLETE"
TX_FAILED == "TX_FAILED"
IsComplete(state) == state \in {TX_COMPLETE, TX_FAILED}

Range(s) == {s[k] : k \in DOMAIN s}
Handles(q) == {q[k].h : k \in DOMAIN q}

RECURSIVE SelectSeqBy(_, _)
\* the queue without the messages whose handle is in drop
SelectSeqBy(q, drop) ==
    IF q = <<>> THEN <<>>
    ELSE IF Head(q).h \in drop THEN SelectSeqBy(Tail(q), drop)
         ELSE <<Head(q)>> \o SelectSeqBy(Tail(q), drop)

\* ---------------------------------------------------------------- byte codec
RECURSIVE FromBytesBig(_)
\* int.from_bytes(bs, byteorder='big'), unsigned. The model checker's integers
\* are 32 bits wide: a value of 2^31 or more is represented by 2^31 - 1
FromBytesBig(bs) ==
    IF bs = <<>> THEN 0
    ELSE LET high == FromBytesBig(SubSeq(bs, 1, Len(bs) - 1))
         IN  IF high >= 8388608 THEN 2147483647 ELSE high * 256 + bs[Len(bs)]

\* payload[lo:hi] of Python (0-based, hi exclusive, clipped to the length)
Slice(payload, lo, hi) ==
    SubSeq(payload, lo + 1, IF hi < Len(payload) THEN hi ELSE Len(payload))

\* a decoder accepting one interval more than the range allows
reconfigure_hearbeat_range(payload, old_interval) ==
    IF Len(payload) > 2 /\ payload[1] = 255
         /\ FromBytesBig(Slice(payload, 1, 5)) \in 1..(MaxHeartbeatInterval + 1)
    THEN FromBytesBig(Slice(payload, 1, 5))
    ELSE old_interval

\* a decoder that accepts the interval 0
reconfigure_hearbeat_zero(payload, old_interval) ==
    IF Len(payload) > 2 /\ payload[1] = 255
         /\ FromBytesBig(Slice(payload, 1, 5)) \in 0..MaxHeartbeatInterval
    THEN FromBytesBig(Slice(payload, 1, 5))
    ELSE old_interval

\* reconfigure_hearbeat(payload, old_interval)
reconfigure_hearbeat(payload, old_interval) ==
    IF Len(payload) > 2
    THEN IF payload[1] = 255
         THEN LET request == FromBytesBig(Slice(payload, 1, 5))
              IN  IF request \in 1..MaxHeartbeatInterval
                  THEN request
                  ELSE old_interval
         ELSE old_interval
    ELSE old_interval

\* ---------------------------------------------------------------- modem capability
P60 == <<255, 0, 0, 0, 60>>
P120 == <<255, 0, 0, 0, 120>>
PZero == <<255, 0, 0, 0, 0>>
PText == <<72, 105>>
PEmpty == <<>>

\* the MT messages the network delivers: payload, whether the modem reports
\* an id for it, and whether mt_message_recv can fetch it
MtKinds ==
    [payload : {P60, P120, PZero, PText}, idok : {TRUE}, recvok : {TRUE}]
    \cup {[payload |-> PEmpty, idok |-> TRUE, recvok |-> TRUE],
          [payload |-> P60, idok |-> FALSE, recvok |-> TRUE],
          [payload |-> P60, idok |-> TRUE, recvok |-> FALSE]}

MtMessage(h, kind) ==
    [h |-> h, id |-> IF kind.idok THEN h ELSE 0, size |-> Len(kind.payload),
     payload |-> kind.payload, recvok |-> kind.recvok]

\* the absent message (None) of mt_message_recv
NoMessage == [h |-> 0, id |-> 0, size |-> 0, payload |-> <<>>, recvok |-> FALSE]

\* modem.mt_message_recv(stub) -> optional<MtMessage>
MtMessageRecv(stub) ==
    IF stub.recvok /\ stub.h \in Handles(mtQueue) THEN stub ELSE NoMessage

LastTime == StartTime + MaxElapsed

\* the values a later time.time() of the same step can return
LaterTimes == {now} \cup (IF now + TimeStep <= LastTime THEN {now + TimeStep} ELSE {})

Running == {"urc", "poll", "hb", "dispatch", "mt"}

\* the positions of the loop at which the environment is observed to act: the
\* loop reads the modem's state only in the steps that follow them
EnvPoints == {"urc", "wait"}

loopVars == <<events_set, urc, heartbeat_interval, last_notification_check_time,
              last_heartbeat_time, heartbeat_count, events, ei, rx_queue, mi>>
modemVars == <<urcQueue, activeMask, txAllowed, mtQueue, moQueue, nextMt, nextMo,
               urcCount>>
histVars == <<hbSubmits, hbSkips, lastSubmitTime, deletedMt, deletedMo,
              doubleDelete, refetched, tickInterval>>
connVars == <<connected, everConnected, disconnectCalls>>
largeVars == <<data, chunk_size, chunk_count, chunk, msg_meta, chunkHandles>>
pureVars == <<arg_payload, arg_old, readings, result>>
\* the variables of the other programs
basicOnly == <<largeVars, pureVars>>

\* ---------------------------------------------------------------- environment
\* the MT messages and notifications that have arrived so far
Arrivals == (nextMt - 1) + urcCount

\* the wall clock advances
Advance ==
    /\ pc \in EnvPoints
    /\ now + TimeStep <= LastTime
    /\ now' = now + TimeStep
    /\ UNCHANGED <<pc, connVars, loopVars, modemVars, histVars>>
    /\ UNCHANGED <<everTerminal, basicOnly>>

\* the reader thread enqueues an unsolicited notification
UrcArrive ==
    /\ pc \in EnvPoints
    /\ Arrivals < MaxArrivals
    /\ \E raw \in UrcKinds : urcQueue' = Append(urcQueue, raw)
    /\ urcCount' = urcCount + 1
    /\ UNCHANGED <<pc, now, connVars, loopVars, activeMask, txAllowed, mtQueue,
                   moQueue, nextMt, nextMo, histVars>>
    /\ UNCHANGED <<everTerminal, basicOnly>>

\* the network delivers an MT message
MtArrive ==
    /\ pc \in EnvPoints
    /\ Arrivals < MaxArrivals
    /\ \E kind \in MtKinds : mtQueue' = Append(mtQueue, MtMessage(nextMt, kind))
    /\ nextMt' = nextMt + 1
    /\ activeMask' = activeMask \cup {MT_RECEIVED}
    /\ UNCHANGED <<pc, now, connVars, loopVars, urcQueue, txAllowed, moQueue,
                   nextMo, urcCount, histVars>>
    /\ UNCHANGED <<everTerminal, basicOnly>>

\* an MO message reaches a terminal state
MoProgress ==
    /\ pc \in EnvPoints
    /\ \E k \in DOMAIN moQueue, s \in {TX_COMPLETE, TX_FAILED} :
          /\ moQueue[k].state = TX_READY
          /\ moQueue' = [moQueue EXCEPT ![k].state = s]
          /\ everTerminal' = everTerminal \cup {moQueue[k].h}
    /\ activeMask' = activeMask \cup {MO_COMPLETE}
    /\ UNCHANGED <<pc, now, connVars, loopVars, urcQueue, txAllowed, mtQueue,
                   nextMt, nextMo, urcCount, hbSubmits, hbSkips, lastSubmitTime,
                   deletedMt, deletedMo, doubleDelete, refetched, tickInterval>>
    /\ UNCHANGED <<basicOnly>>

\* the network allows or disallows transmission
ToggleTx ==
    /\ pc \in EnvPoints
    /\ txAllowed' = ~txAllowed
    /\ UNCHANGED <<pc, now, connVars, loopVars, urcQueue, activeMask, mtQueue,
                   moQueue, nextMt, nextMo, urcCount, histVars>>
    /\ UNCHANGED <<everTerminal, basicOnly>>

\* ---------------------------------------------------------------- examples/basic.py
\* the MO queues the control loop can find on the modem at start: empty, or
\* a completed message that the modem reports without an id
InitialMoQueues ==
    {<<>>,
     <<[h |-> 1, id |-> 0, state |-> TX_COMPLETE]>>}

\* modem.connect()
Connect ==
    /\ pc = "disconnected"
    /\ \/ /\ pc' = "connected"
          /\ connected' = TRUE
          /\ everConnected' = TRUE
       \/ /\ pc' = "crashed"
          /\ UNCHANGED <<connected, everConnected>>
    /\ UNCHANGED <<now, disconnectCalls, loopVars, modemVars, histVars>>
    /\ UNCHANGED <<everTerminal, basicOnly>>

\* a program that gives up when the registration fails
AfterRegistrationFatal(ok) == IF ok THEN "registered" ELSE "crashed"

\* if not events_set: logger.error(...), and main() goes on
AfterRegistration(ok) == "registered"

\* events_set = modem.set_event_mask(events_mask)
SetEventMask ==
    /\ pc = "connected"
    /\ events_set' \in BOOLEAN
    /\ pc' = AfterRegistration(events_set')
    /\ UNCHANGED <<now, connVars, urc, heartbeat_interval, last_notification_check_time,
                   last_heartbeat_time, heartbeat_count, events, ei, rx_queue, mi,
                   modemVars, histVars>>
    /\ UNCHANGED <<everTerminal, basicOnly>>

\* the locals of main() before the loop
StartLoop ==
    /\ pc = "registered"
    /\ last_notification_check_time' = 0
    /\ last_heartbeat_time' = 0
    /\ heartbeat_count' = 0
    /\ events' = <<MO_COMPLETE, MT_RECEIVED>>
    /\ pc' = "urc"
    /\ UNCHANGED <<now, connVars, events_set, urc, heartbeat_interval, ei, rx_queue, mi,
                   modemVars, histVars>>
    /\ UNCHANGED <<everTerminal, basicOnly>>

\* a loop that takes every queued notification and keeps the first
UrcRestDrained(q) == <<>>

\* urc = modem.get_urc(): one notification is taken, the others stay queued
UrcRest(q) == Tail(q)

\* urc = modem.get_urc(); the parsed event is appended before its name is read
GetUrc ==
    /\ pc = "urc"
    /\ IF urcQueue = <<>>
       THEN /\ urc' = None
            /\ UNCHANGED <<urcQueue, events>>
       ELSE /\ urc' = Head(urcQueue)
            /\ urcQueue' = UrcRest(urcQueue)
            /\ events' = Append(events, ParseUrcEvent(urc'))
    /\ tickInterval' = heartbeat_interval
    /\ pc' = "poll"
    /\ UNCHANGED <<now, connVars, events_set, heartbeat_interval,
                   last_notification_check_time, last_heartbeat_time,
                   heartbeat_count, ei, rx_queue, mi, activeMask, txAllowed,
                   mtQueue, moQueue, nextMt, nextMo, urcCount, hbSubmits, hbSkips,
                   lastSubmitTime, deletedMt, deletedMo, doubleDelete, refetched>>
    /\ UNCHANGED <<everTerminal, basicOnly>>

\* a poll decision that does not look at the working list
PollDueAnyEvents == now - last_notification_check_time >= PollInterval

\* the active mask is fetched when the working list is empty and 5 s have passed;
\* urc is not read after the notification step, and is forgotten here
PollDue == events = <<>> /\ now - last_notification_check_time >= PollInterval

Poll ==
    /\ pc = "poll"
    /\ IF PollDue
       THEN /\ events' = GetEvents(activeMask)
            /\ activeMask' = {}
            /\ last_notification_check_time' = now
       ELSE UNCHANGED <<events, activeMask, last_notification_check_time>>
    /\ urc' = None
    /\ pc' = "hb"
    /\ UNCHANGED <<now, connVars, events_set, heartbeat_interval, last_heartbeat_time,
                   heartbeat_count, ei, rx_queue, mi, urcQueue, txAllowed, mtQueue,
                   moQueue, nextMt, nextMo, urcCount, histVars>>
    /\ UNCHANGED <<everTerminal, basicOnly>>

\* a scheduler that does not look at the elapsed time
HeartbeatDueAlways == heartbeat_interval # 0

\* a heartbeat is due
HeartbeatDue ==
    /\ heartbeat_interval # 0
    /\ now - last_heartbeat_time >= heartbeat_interval

\* a timestamp that is refreshed only by a heartbeat that was sent
HeartbeatStampIfSent(allowed, t) == IF allowed THEN t ELSE last_heartbeat_time

\* last_heartbeat_time = time.time(), whether or not the heartbeat was sent
HeartbeatStamp(allowed, t) == t

\* the heartbeat scheduler of one tick
Heartbeat ==
    /\ pc = "hb"
    /\ IF HeartbeatDue
       THEN /\ heartbeat_count < MaxCount
            /\ heartbeat_count' = heartbeat_count + 1
            /\ IF txAllowed
               THEN /\ hbSubmits' = hbSubmits + 1
                    /\ lastSubmitTime' = now
                    /\ hbSkips' = hbSkips
                    /\ \/ /\ nextMo <= MaxMo
                          /\ moQueue' = Append(moQueue,
                                 [h |-> nextMo, id |-> nextMo, state |-> TX_READY])
                          /\ nextMo' = nextMo + 1
                       \/ UNCHANGED <<moQueue, nextMo>>
               ELSE /\ hbSkips' = hbSkips + 1
                    /\ UNCHANGED <<hbSubmits, lastSubmitTime, moQueue, nextMo>>
            /\ \E t \in LaterTimes :
                  /\ now' = t
                  /\ last_heartbeat_time' = HeartbeatStamp(txAllowed, t)
       ELSE UNCHANGED <<heartbeat_count, hbSubmits, lastSubmitTime, hbSkips,
                        moQueue, nextMo, now, last_heartbeat_time>>
    /\ ei' = 1
    /\ pc' = "dispatch"
    /\ UNCHANGED <<connVars, events_set, urc, heartbeat_interval,
                   last_notification_check_time, events, rx_queue, mi, urcQueue,
                   activeMask, txAllowed, mtQueue, nextMt, urcCount, deletedMt,
                   deletedMo, doubleDelete, refetched, tickInterval>>
    /\ UNCHANGED <<everTerminal, basicOnly>>

\* a queue kept from the previous MT event instead of a fresh one
RxQueueStale == IF rx_queue # <<>> THEN rx_queue ELSE mtQueue

\* rx_queue = modem.get_mt_message_queue()
RxQueueFetch == mtQueue

\* the forwarding check of a fetched MT message
Forwarded(msg) ==
    /\ msg # NoMessage
    /\ msg.size # 0
    /\ msg.id # 0
    /\ msg.payload # <<>>

\* an interval decoded without the previous one
NewIntervalDefault(payload) ==
    IF payload[1] = 255
    THEN reconfigure_hearbeat(payload, HEARTBEAT_INTERVAL)
    ELSE heartbeat_interval

\* the interval after a forwarded MT payload
NewInterval(payload) ==
    IF payload[1] = 255
    THEN reconfigure_hearbeat(payload, heartbeat_interval)
    ELSE heartbeat_interval

\* the position after the MT message at index i of rx_queue
AfterMt(i) ==
    IF i < Len(rx_queue)
    THEN /\ mi' = i + 1
         /\ pc' = "mt"
         /\ ei' = ei
    ELSE /\ mi' = i + 1
         /\ pc' = "dispatch"
         /\ ei' = ei + 1

\* event == MESSAGE_MT_RECEIVED: the queue is fetched
DispatchMt ==
    /\ pc = "dispatch"
    /\ ei <= Len(events)
    /\ events[ei] = MT_RECEIVED
    /\ rx_queue' = RxQueueFetch
    /\ IF rx_queue' = <<>>
       THEN /\ pc' = "dispatch"
            /\ ei' = ei + 1
            /\ mi' = 1
       ELSE /\ pc' = "mt"
            /\ ei' = ei
            /\ mi' = 1
    /\ UNCHANGED <<now, connVars, events_set, urc, heartbeat_interval,
                   last_notification_check_time, last_heartbeat_time,
                   heartbeat_count, events, modemVars, histVars>>
    /\ UNCHANGED <<everTerminal, basicOnly>>

\* one message of the MT queue: fetched, checked, interpreted, deleted
MtStep ==
    /\ pc = "mt"
    /\ mi <= Len(rx_queue)
    /\ LET stub == rx_queue[mi]
           mt_message == MtMessageRecv(stub)
       IN  /\ refetched' = (refetched \/ stub.h \in deletedMt)
           /\ IF Forwarded(mt_message)
              THEN /\ heartbeat_interval' = NewInterval(mt_message.payload)
                   /\ mtQueue' = SelectSeqBy(mtQueue, {mt_message.id})
                   /\ deletedMt' = deletedMt \cup {mt_message.id}
                   /\ doubleDelete' = (doubleDelete \/ mt_message.id \in deletedMt)
              ELSE UNCHANGED <<heartbeat_interval, mtQueue, deletedMt, doubleDelete>>
    /\ AfterMt(mi)
    /\ UNCHANGED <<now, connVars, events_set, urc, last_notification_check_time,
                   last_heartbeat_time, heartbeat_count, events, rx_queue,
                   urcQueue, activeMask, txAllowed, moQueue, nextMt, nextMo,
                   urcCount, hbSubmits, hbSkips, lastSubmitTime, deletedMo,
                   tickInterval>>
    /\ UNCHANGED <<everTerminal, basicOnly>>

\* a reconciler that does not look at the state of the handle
MoDeletableAnyState(mo_message) == mo_message.id # 0

\* the handles of the MO queue the reconciler deletes
MoDeletable(mo_message) ==
    /\ mo_message.state # None
    /\ IsComplete(mo_message.state)
    /\ mo_message.id # 0

\* event == MESSAGE_MO_COMPLETE: the terminal handles of the queue are deleted
DispatchMo ==
    /\ pc = "dispatch"
    /\ ei <= Len(events)
    /\ events[ei] = MO_COMPLETE
    /\ LET drop == {moQueue[k].h : k \in {j \in DOMAIN moQueue : MoDeletable(moQueue[j])}}
       IN  /\ moQueue' = SelectSeqBy(moQueue, drop)
           /\ deletedMo' = deletedMo \cup drop
           /\ doubleDelete' = (doubleDelete \/ drop \cap deletedMo # {})
    /\ ei' = ei + 1
    /\ UNCHANGED <<pc, now, connVars, events_set, urc, heartbeat_interval,
                   last_notification_check_time, last_heartbeat_time,
                   heartbeat_count, events, rx_queue, mi, urcQueue, activeMask,
                   txAllowed, mtQueue, nextMt, nextMo, urcCount, hbSubmits,
                   hbSkips, lastSubmitTime, deletedMt, refetched, tickInterval>>
    /\ UNCHANGED <<everTerminal, basicOnly>>

\* any other event: its name is logged; None has no name (AttributeError)
DispatchOther ==
    /\ pc = "dispatch"
    /\ ei <= Len(events)
    /\ events[ei] \notin {MT_RECEIVED, MO_COMPLETE}
    /\ IF events[ei] = None
       THEN /\ pc' = "crashed"
            /\ ei' = ei
       ELSE /\ pc' = "dispatch"
            /\ ei' = ei + 1
    /\ UNCHANGED <<now, connVars, events_set, urc, heartbeat_interval,
                   last_notification_check_time, last_heartbeat_time,
                   heartbeat_count, events, rx_queue, mi, modemVars, histVars>>
    /\ UNCHANGED <<everTerminal, basicOnly>>

\* a working list that is kept for the next tick
ClearedEventsKept == events

\* events = []
ClearedEvents == <<>>

\* if events: events = []
ClearEvents ==
    /\ pc = "dispatch"
    /\ ei > Len(events)
    /\ events' = ClearedEvents
    /\ ei' = 1
    /\ pc' = "urc"
    /\ UNCHANGED <<now, connVars, events_set, urc, heartbeat_interval,
                   last_notification_check_time, last_heartbeat_time,
                   heartbeat_count, rx_queue, mi, modemVars, histVars>>
    /\ UNCHANGED <<everTerminal, basicOnly>>

\* main() has returned or raised: its locals are gone
LocalsGone ==
    /\ events_set' = FALSE
    /\ urc' = None
    /\ heartbeat_interval' = HEARTBEAT_INTERVAL
    /\ last_notification_check_time' = 0
    /\ last_heartbeat_time' = 0
    /\ heartbeat_count' = 0
    /\ events' = <<>>
    /\ ei' = 1
    /\ rx_queue' = <<>>
    /\ mi' = 1

\* except KeyboardInterrupt, then modem.disconnect()
KeyboardInterrupt ==
    /\ pc \in Running
    /\ pc' = "exited"
    /\ connected' = FALSE
    /\ disconnectCalls' = disconnectCalls + 1
    /\ LocalsGone
    /\ UNCHANGED <<now, everConnected, modemVars, histVars>>
    /\ UNCHANGED <<everTerminal, basicOnly>>

\* an interrupt between connect() and the try statement is not caught
InterruptSetup ==
    /\ pc \in {"connected", "registered"}
    /\ pc' = "crashed"
    /\ LocalsGone
    /\ UNCHANGED <<now, connVars, modemVars, histVars>>
    /\ UNCHANGED <<everTerminal, basicOnly>>

\* a capability call raises: only KeyboardInterrupt is caught
TransportFailure ==
    /\ pc \in Running \cup {"connected", "registered"}
    /\ pc' = "crashed"
    /\ LocalsGone
    /\ UNCHANGED <<now, connVars, modemVars, histVars>>
    /\ UNCHANGED <<everTerminal, basicOnly>>

\* basic.py has not assigned its locals
LoopIdle ==
    /\ events_set = FALSE
    /\ urc = None
    /\ heartbeat_interval = HEARTBEAT_INTERVAL
    /\ last_notification_check_time = 0
    /\ last_heartbeat_time = 0
    /\ heartbeat_count = 0
    /\ events = <<>>
    /\ ei = 1
    /\ rx_queue = <<>>
    /\ mi = 1

\* nothing has been observed yet
HistInit ==
    /\ everConnected = FALSE
    /\ disconnectCalls = 0
    /\ hbSubmits = 0
    /\ hbSkips = 0
    /\ lastSubmitTime = 0
    /\ deletedMt = {}
    /\ deletedMo = {}
    /\ doubleDelete = FALSE
    /\ refetched = FALSE
    /\ tickInterval = HEARTBEAT_INTERVAL
    /\ chunkHandles = <<>>

\* large_message.py is not running
LargeIdle ==
    /\ data = <<>>
    /\ chunk_size = 1
    /\ chunk_count = 0
    /\ chunk = <<>>
    /\ msg_meta = 0

\* reconfigure_hearbeat is not being called
\* the getters of modem have not been called
NoReadings == [ts |-> 0, lat |-> 0, lon |-> 0, sq |-> 0, snr |-> 0]

PureIdle ==
    /\ arg_payload = <<>>
    /\ arg_old = 0
    /\ readings = NoReadings
    /\ result = -1

\* a modem with nothing queued and no event pending
ModemIdle ==
    /\ now = StartTime
    /\ connected = FALSE
    /\ urcQueue = <<>>
    /\ activeMask = {}
    /\ txAllowed = TRUE
    /\ mtQueue = <<>>
    /\ moQueue = <<>>
    /\ nextMt = 1
    /\ nextMo = 1
    /\ urcCount = 0
    /\ everTerminal = {}

Init ==
    /\ pc = "disconnected"
    /\ now = StartTime
    /\ connected = FALSE
    /\ urcQueue = <<>>
    /\ activeMask = {}
    /\ txAllowed \in BOOLEAN
    /\ mtQueue = <<>>
    /\ moQueue \in InitialMoQueues
    /\ nextMt = 1
    /\ nextMo = Len(moQueue) + 1
    /\ urcCount = 0
    /\ everTerminal = {moQueue[k].h : k \in {j \in DOMAIN moQueue : IsComplete(moQueue[j].state)}}
    /\ LoopIdle
    /\ HistInit
    /\ LargeIdle
    /\ PureIdle

Next ==
    \/ Connect
    \/ SetEventMask
    \/ StartLoop
    \/ GetUrc
    \/ Poll
    \/ Heartbeat
    \/ DispatchMt
    \/ MtStep
    \/ DispatchMo
    \/ DispatchOther
    \/ ClearEvents
    \/ KeyboardInterrupt
    \/ InterruptSetup
    \/ TransportFailure
    \/ Advance
    \/ UrcArrive
    \/ MtArrive
    \/ MoProgress
    \/ ToggleTx

Spec == Init /\ [][Next]_vars

\* ---------------------------------------------------------------- the notification producer
\* the reader thread enqueues an unsolicited notification while the loop is at
\* any point of a tick
UrcArriveAnywhere ==
    /\ pc \in Running
    /\ urcCount < MaxUrcs
    /\ \E raw \in UrcKinds : urcQueue' = Append(urcQueue, raw)
    /\ urcCount' = urcCount + 1
    /\ UNCHANGED <<pc, now, connVars, loopVars, activeMask, txAllowed, mtQueue,
                   moQueue, nextMt, nextMo, histVars>>
    /\ UNCHANGED <<everTerminal, basicOnly>>

\* the control loop with the producer acting at every point of it, on a link
\* without MT traffic
UrcNext ==
    \/ Connect
    \/ SetEventMask
    \/ StartLoop
    \/ GetUrc
    \/ Poll
    \/ Heartbeat
    \/ DispatchMt
    \/ DispatchMo
    \/ DispatchOther
    \/ ClearEvents
    \/ KeyboardInterrupt
    \/ UrcArriveAnywhere

SpecUrc == Init /\ [][UrcNext]_vars

\* ---------------------------------------------------------------- examples/large_message.py
\* a frame whose counter byte counts the chunk itself
FrameCountingItself(chunks_left, slice) == <<255, 255, chunks_left + 1>> \o slice

\* bytes(header_sin_min + bytes([chunks_left]) + data[i:i + chunk_size])
Frame(chunks_left, slice) == <<255, 255, chunks_left>> \o slice

\* the frames the loop of iter_chunks_with_header yields from offset i on: one
\* for each offset of range(i, len(data), chunk_size), the k-th after k
\* decrements of chunks_left
ChunksFrom(bytes, size, i, chunks_left) ==
    LET offsets == {j \in i..(Len(bytes) - 1) : (j - i) % size = 0}
    IN  [k \in 1..Cardinality(offsets) |->
            Frame(chunks_left - k, Slice(bytes, i + (k - 1) * size, i + k * size))]

\* a chunk count that is rounded down
FloorDiv(n, size) == n \div size

\* math.ceil(len(data) / chunk_size)
CeilDiv(n, size) == (n + size - 1) \div size

\* iter_chunks_with_header(data, chunk_size): the frames, or the ValueError
iter_chunks_with_header(bytes, size) ==
    IF CeilDiv(Len(bytes), size) > MaxChunks
    THEN [error |-> TRUE, frames |-> <<>>]
    ELSE [error |-> FALSE,
          frames |-> ChunksFrom(bytes, size, 0, CeilDiv(Len(bytes), size))]

\* data.extend([255 if i % 2 == 0 else 0]) for i in range(FILE_SIZE)
FileData(file_size) == [i \in 1..file_size |-> IF (i - 1) % 2 = 0 THEN 255 ELSE 0]

LastTimeLarge == StartTime + MaxElapsedLarge

\* the MO queues a large transfer can find on the modem at start: those of the
\* control loop, or a message of an earlier run that is still pending
LargeInitialMoQueues ==
    InitialMoQueues \cup {<<[h |-> 1, id |-> 1, state |-> TX_READY]>>}

LargeInit ==
    /\ pc = "disconnected"
    /\ now = StartTime
    /\ connected = FALSE
    /\ urcQueue = <<>>
    /\ activeMask \in {{}, {MO_COMPLETE}}
    /\ txAllowed \in BOOLEAN
    /\ mtQueue = <<>>
    /\ moQueue \in LargeInitialMoQueues
    /\ nextMt = 1
    /\ nextMo = Len(moQueue) + 1
    /\ urcCount = 0
    /\ everTerminal = {moQueue[k].h : k \in {j \in DOMAIN moQueue : IsComplete(moQueue[j].state)}}
    /\ LoopIdle
    /\ HistInit
    /\ chunk_size \in 1..MaxChunkSize
    /\ \E file_size \in (0..MaxFileSize) \cup {MaxChunks * chunk_size + 1} :
          data = FileData(file_size)
    /\ chunk_count = 0
    /\ chunk = <<>>
    /\ msg_meta = 0
    /\ PureIdle

\* if modem.is_transmit_allowed(): otherwise main() returns at once
LargeStart ==
    /\ pc = "registered"
    /\ events' = <<>>
    /\ last_notification_check_time' = 0
    /\ chunk_count' = 0
    /\ IF txAllowed
       THEN IF iter_chunks_with_header(data, chunk_size).error
            THEN pc' = "crashed"
            ELSE pc' = "send"
       ELSE pc' = "done"
    /\ UNCHANGED <<now, connVars, events_set, urc, heartbeat_interval,
                   last_heartbeat_time, heartbeat_count, ei, rx_queue, mi,
                   modemVars, histVars, everTerminal, data, chunk_size, chunk, msg_meta,
                   chunkHandles, pureVars>>

\* a for statement that takes the frames from the last one back
NextChunkReversed(frames, count) == frames[Len(frames) - count]

\* for chunk in iter_chunks_with_header(...): the frame after count frames
NextChunk(frames, count) == frames[count + 1]

\* the next chunk of the for loop: msg_meta = modem.mo_message_send(chunk)
LargeSend ==
    /\ pc = "send"
    /\ IF chunk_count < Len(iter_chunks_with_header(data, chunk_size).frames)
       THEN /\ chunk_count' = chunk_count + 1
            /\ chunk' = NextChunk(iter_chunks_with_header(data, chunk_size).frames,
                                  chunk_count)
            /\ \/ /\ nextMo <= MaxMoLarge
                  /\ msg_meta' = nextMo
                  /\ moQueue' = Append(moQueue,
                         [h |-> nextMo, id |-> nextMo, state |-> TX_READY])
                  /\ nextMo' = nextMo + 1
                  /\ pc' = "wait"
               \/ /\ msg_meta' = 0
                  /\ pc' = "send"
                  /\ UNCHANGED <<moQueue, nextMo>>
            /\ chunkHandles' = Append(chunkHandles, msg_meta')
       ELSE /\ pc' = "done"
            /\ UNCHANGED <<chunk_count, chunk, msg_meta, moQueue, nextMo, chunkHandles>>
    /\ UNCHANGED <<now, connVars, loopVars, urcQueue, activeMask, txAllowed,
                   mtQueue, nextMt, urcCount, hbSubmits, hbSkips, lastSubmitTime,
                   deletedMt, deletedMo, doubleDelete, refetched, tickInterval,
                   everTerminal, data, chunk_size, pureVars>>

\* a completion check that also looks at the state of the handle
LargeMatchComplete(msg) == msg.id = msg_meta /\ IsComplete(msg.state)

\* if msg.id == msg_meta.id
LargeMatch(msg) == msg.id = msg_meta

\* a wait loop that takes every poll for the completion
LargeObservedAlways(evts) == TRUE

\* a wait loop that takes no poll for the completion
LargeObservedNever(evts) == FALSE

\* if EventNotification.MESSAGE_MO_COMPLETE in events
LargeObserved(evts) == MO_COMPLETE \in Range(evts)

\* one pass of `while msg_meta`, with its sleep
LargeWait ==
    /\ pc = "wait"
    /\ now + SleepTime <= LastTimeLarge
    /\ IF events = <<>> /\ now - last_notification_check_time >= PollInterval
       THEN /\ activeMask' = {}
            /\ last_notification_check_time' = now
            /\ IF /\ LargeObserved(GetEvents(activeMask))
                  /\ \E k \in DOMAIN moQueue : LargeMatch(moQueue[k])
               THEN /\ moQueue' = SelectSeqBy(moQueue,
                           {moQueue[k].h : k \in {j \in DOMAIN moQueue : moQueue[j].id = msg_meta}})
                    /\ deletedMo' = deletedMo \cup {msg_meta}
                    /\ doubleDelete' = (doubleDelete \/ msg_meta \in deletedMo)
                    /\ msg_meta' = 0
                    /\ pc' = "send"
               ELSE UNCHANGED <<moQueue, deletedMo, doubleDelete, msg_meta, pc>>
       ELSE UNCHANGED <<activeMask, last_notification_check_time, moQueue,
                        deletedMo, doubleDelete, msg_meta, pc>>
    /\ events' = <<>>
    /\ now' = now + SleepTime
    /\ UNCHANGED <<connVars, events_set, urc, heartbeat_interval, last_heartbeat_time,
                   heartbeat_count, ei, rx_queue, mi, urcQueue, txAllowed, mtQueue,
                   nextMt, nextMo, urcCount, hbSubmits, hbSkips, lastSubmitTime,
                   deletedMt, refetched, tickInterval, everTerminal, data,
                   chunk_size, chunk_count, chunk, chunkHandles, pureVars>>

\* a capability call raises or the user interrupts: main() has no handler
LargeFailure ==
    /\ pc \in {"connected", "registered", "send", "wait"}
    /\ pc' = "crashed"
    /\ UNCHANGED <<now, connVars, loopVars, modemVars, histVars, everTerminal,
                   basicOnly>>

LargeNext ==
    \/ Connect
    \/ SetEventMask
    \/ LargeStart
    \/ LargeSend
    \/ LargeWait
    \/ LargeFailure
    \/ MoProgress

SpecLarge == LargeInit /\ [][LargeNext]_vars

\* C1: chunk N+1 is not submitted until the completion of chunk N has been
\* observed: a chunk that got a handle has reached a terminal state on the modem
\* before any later chunk is submitted.
C1_OneAtATime ==
    \A i \in DOMAIN chunkHandles, j \in DOMAIN chunkHandles :
        (i < j /\ chunkHandles[i] # 0) => chunkHandles[i] \in everTerminal

\* C3 in the large transfer: when main() has ended after a successful connect(),
\* disconnect() has been called.
C3_LargeDisconnectOnExit ==
    (pc \in {"done", "crashed"} /\ everConnected) => disconnectCalls >= 1

\* C15: a chunk whose completion is not observed blocks the transfer. The wait
\* for a submitted chunk is left for the next submission only by a poll that
\* returns MO-complete while the MO queue holds the chunk's id; until then the
\* chunk counter and the handle waited for stay as they are, and every
\* submission is the next frame of the chunker, made outside the wait, so that
\* no chunk is submitted again and no later chunk is submitted.
C15_BlockedUntilObserved ==
    /\ [][(pc = "wait" /\ pc' = "send") =>
            /\ MO_COMPLETE \in activeMask
            /\ now - last_notification_check_time >= PollInterval
            /\ \E k \in DOMAIN moQueue : moQueue[k].id = msg_meta
            /\ msg_meta \in deletedMo']_vars
    /\ [][(pc = "wait" /\ pc' # "send") =>
            /\ msg_meta' = msg_meta
            /\ chunk_count' = chunk_count
            /\ chunkHandles' = chunkHandles
            /\ nextMo' = nextMo]_vars
    /\ [][chunkHandles' # chunkHandles =>
            /\ pc = "send"
            /\ chunk_count' = chunk_count + 1
            /\ Len(chunkHandles') = chunk_count'
            /\ chunk_count' <= Len(iter_chunks_with_header(data, chunk_size).frames)]_vars

\* the first of several chunks is still pending after three polls: the transfer
\* has waited to the end of the clock and nothing else was submitted
C15_Witness ==
    /\ pc = "wait"
    /\ now = LastTimeLarge
    /\ last_notification_check_time >= StartTime + 2 * PollInterval
    /\ chunk_count = 1
    /\ Len(chunkHandles) = 1
    /\ Len(iter_chunks_with_header(data, chunk_size).frames) >= 2
    /\ \E k \in DOMAIN moQueue : moQueue[k].id = msg_meta /\ moQueue[k].state = TX_READY

\* ---------------------------------------------------------------- the large transfer to its end
\* The program reads the clock only in differences (the time since the last
\* poll), so a state and the same state with both times shifted behave alike:
\* when the clock of the model has reached its end, the epoch is moved so that
\* the last poll is at StartTime.
ClockRebase ==
    /\ pc = "wait"
    /\ now + SleepTime > LastTimeLarge
    /\ last_notification_check_time > StartTime
    /\ now' = StartTime + (now - last_notification_check_time)
    /\ last_notification_check_time' = StartTime
    /\ UNCHANGED <<pc, connVars, events_set, urc, heartbeat_interval,
                   last_heartbeat_time, heartbeat_count, events, ei, rx_queue, mi,
                   modemVars, histVars, everTerminal, basicOnly>>

\* msg_meta = modem.mo_message_send(chunk) on a modem that returns a handle for
\* every chunk
LargeSendHandle == LargeSend /\ (chunk_count' # chunk_count => msg_meta' # 0)

\* modem.connect() succeeds
ConnectOk == Connect /\ pc' = "connected"

\* a transfer with transmission allowed, on a modem that has a handle for every
\* chunk of the data
LargeFairInit ==
    /\ LargeInit
    /\ txAllowed
    /\ Len(moQueue) + CeilDiv(Len(data), chunk_size) <= MaxMoLarge

LargeFairNext ==
    \/ ConnectOk
    \/ SetEventMask
    \/ LargeStart
    \/ LargeSendHandle
    \/ LargeWait
    \/ MoProgress
    \/ ClockRebase

\* main() runs on (each of its steps is taken when it can be), and the modem
\* brings every queued message to a terminal state and reports it in the mask
SpecLargeFair ==
    /\ LargeFairInit
    /\ [][LargeFairNext]_vars
    /\ WF_vars(ConnectOk)
    /\ WF_vars(SetEventMask)
    /\ WF_vars(LargeStart)
    /\ WF_vars(LargeSendHandle)
    /\ WF_vars(LargeWait)
    /\ WF_vars(ClockRebase)
    /\ WF_vars(MoProgress)

\* C21: a large transfer with transmission allowed, a handle for every chunk
\* and a modem that completes and reports every message comes to its end; at the
\* end every frame of the chunker has been submitted, and the handle of every
\* chunk has been deleted, none of them twice.
C21_Terminates ==
    /\ <>(pc = "done")
    /\ [](pc = "done" =>
            /\ Len(chunkHandles) = Len(iter_chunks_with_header(data, chunk_size).frames)
            /\ \A k \in DOMAIN chunkHandles :
                  chunkHandles[k] # 0 /\ chunkHandles[k] \in deletedMo
            /\ \A i \in DOMAIN chunkHandles, j \in DOMAIN chunkHandles :
                  i # j => chunkHandles[i] # chunkHandles[j]
            /\ ~doubleDelete)

\* a transfer of three chunks has ended after the clock of the model was moved
\* while a chunk was awaited: every chunk was deleted after it had completed
C21_Witness ==
    /\ pc = "done"
    /\ Len(chunkHandles) = 3
    /\ Range(chunkHandles) \subseteq deletedMo
    /\ Range(chunkHandles) \subseteq everTerminal
    /\ now < StartTime + 2 * PollInterval

\* a chunk is passed to mo_message_send
SubmitStep == chunkHandles' # chunkHandles

\* C20: the k-th submission of a large transfer passes the k-th frame of the
\* chunker, so each frame is submitted at most once, in chunker order, with the
\* counter byte one less than that of the submission before; a submission that
\* returns no handle is followed at once, without a wait, by the next frame (or
\* the end of the loop), one that returns a handle by the wait; and nothing is
\* submitted when transmission is not allowed at the start.
C20_InOrderNoRetry ==
    /\ [][SubmitStep =>
            /\ txAllowed
            /\ pc = "send"
            /\ Len(chunkHandles') = Len(chunkHandles) + 1
            /\ Len(chunkHandles') <= Len(iter_chunks_with_header(data, chunk_size).frames)
            /\ chunk' = iter_chunks_with_header(data, chunk_size).frames[Len(chunkHandles')]
            /\ (chunkHandles # <<>> => chunk'[3] = chunk[3] - 1)
            /\ now' = now
            /\ IF msg_meta' = 0 THEN pc' = "send" ELSE pc' = "wait"]_vars
    /\ [][(pc = "send" /\ pc' \notin {"send", "crashed"}) =>
            \/ SubmitStep /\ msg_meta' # 0
            \/ /\ pc' = "done"
               /\ Len(chunkHandles) = Len(iter_chunks_with_header(data, chunk_size).frames)]_vars
    /\ [](~txAllowed => (chunkHandles = <<>> /\ pc \notin {"send", "wait"}))

\* the first of two chunks got no handle and the second was submitted at once
C20_Witness ==
    /\ pc = "wait"
    /\ Len(chunkHandles) = 2
    /\ chunkHandles[1] = 0
    /\ chunkHandles[2] # 0
    /\ chunk[3] = 0
    /\ now = StartTime
    /\ deletedMo = {}

\* the transfer ended at once because transmission was not allowed
C20_WitnessNotAllowed ==
    /\ pc = "done"
    /\ ~txAllowed
    /\ data # <<>>
    /\ chunkHandles = <<>>

\* ---------------------------------------------------------------- claims on the control loop

\* the MT event at position ei - 1 of the working list has just been processed
MtEventProcessed ==
    /\ pc = "dispatch"
    /\ ei > 1
    /\ ei - 1 <= Len(events)
    /\ events[ei - 1] = MT_RECEIVED

\* C2: after the control loop has processed an MT-received event, no handle that
\* was in the MT queue remains on the modem, whether or not it was forwarded.
C2_AllMtDeleted ==
    MtEventProcessed =>
        \A k \in DOMAIN rx_queue : rx_queue[k].h \notin Handles(mtQueue)

\* C3: no run ends with connect() succeeded and disconnect() never called.
C3_DisconnectOnExit ==
    (pc \in {"exited", "crashed"} /\ everConnected) => disconnectCalls >= 1

\* C4: an unsolicited notification that parses to "no event" adds nothing to the
\* working event set (and so cannot make the dispatch of the tick fail).
C4_UnparseableDropped ==
    \A k \in DOMAIN events : events[k] # None

\* C6: the reconciler never issues a delete twice for the same message, and a
\* deleted handle is never fetched again, also when the working event set holds
\* the same event kind more than once.
C6_NoDoubleDelete == ~doubleDelete /\ ~refetched

\* the initial events and an unsolicited MT event were dispatched in one tick,
\* and a message was deleted
C6_Witness ==
    /\ pc = "dispatch"
    /\ Len(events) = 3
    /\ events[3] = MT_RECEIVED
    /\ ei = 4
    /\ deletedMt # {}

\* the step that processes an MO-complete event
MoEventStep ==
    /\ pc = "dispatch"
    /\ ei <= Len(events)
    /\ events[ei] = MO_COMPLETE
    /\ pc' = "dispatch"
    /\ ei' = ei + 1

\* C7 as stated: processing an MO-complete event deletes exactly the handles of
\* the MO queue whose state is terminal.
C7_DeletesTerminal ==
    [][MoEventStep =>
        \A k \in DOMAIN moQueue :
            IsComplete(moQueue[k].state) <=> moQueue[k].h \notin Handles(moQueue')]_vars

\* C7 amended: processing an MO-complete event deletes exactly the handles of the
\* MO queue whose state is terminal and whose id is not 0 (or empty); the handles
\* in a non-terminal state, and those without an id, stay in the queue.
C7_DeletesTerminalWithId ==
    [][MoEventStep =>
        \A k \in DOMAIN moQueue :
            (IsComplete(moQueue[k].state) /\ moQueue[k].id # 0)
                <=> moQueue[k].h \notin Handles(moQueue')]_vars

\* an MO event was processed: a terminal handle is gone, a pending one is left
C7_Witness ==
    /\ pc = "dispatch"
    /\ ei > 1
    /\ ei - 1 <= Len(events)
    /\ events[ei - 1] = MO_COMPLETE
    /\ deletedMo # {}
    /\ \E k \in DOMAIN moQueue : moQueue[k].state = TX_READY

\* the heartbeat step of a tick on which a heartbeat is due and transmission
\* is disallowed
DueDisallowedTick ==
    /\ pc = "hb"
    /\ pc' = "dispatch"
    /\ heartbeat_interval > 0
    /\ now - last_heartbeat_time >= heartbeat_interval
    /\ ~txAllowed

\* C8: on a tick where a heartbeat is due and transmission is disallowed the
\* counter increases by 1, nothing is submitted and the last-send timestamp
\* becomes the current time; a submission is made at most once per step and only
\* a full interval after that timestamp (no catch-up burst), and the counter is
\* the number of submissions plus the number of skipped heartbeats.
C8_SkipAdvances ==
    /\ [][DueDisallowedTick =>
            /\ heartbeat_count' = heartbeat_count + 1
            /\ hbSubmits' = hbSubmits
            /\ hbSkips' = hbSkips + 1
            /\ moQueue' = moQueue
            /\ last_heartbeat_time' = now']_vars
    /\ [][hbSubmits' # hbSubmits =>
            /\ hbSubmits' = hbSubmits + 1
            /\ now - last_heartbeat_time >= heartbeat_interval]_vars
    /\ [](pc \in Running => heartbeat_count = hbSubmits + hbSkips)

\* two due heartbeats were skipped, then one was sent a full interval later
C8_Witness ==
    /\ hbSkips = 2
    /\ hbSubmits = 1
    /\ heartbeat_count = 3
    /\ lastSubmitTime - StartTime >= 2 * heartbeat_interval
    /\ heartbeat_interval > 0

\* C13: the working event set is cleared at the end of every tick. A tick starts
\* either right after the locals are set up (the first tick) or with an empty
\* set, and only after every event of the set has been dispatched; nothing is
\* added to the set but by the notification read and the active-mask poll at the
\* start of the tick (the poll only into an empty set), and the dispatch of the
\* tick goes through the set from its first event, one event at a time, so each
\* event is dispatched in the tick that added it and is gone before the next.
C13_ClearedEachTick ==
    /\ [][(pc # "urc" /\ pc' = "urc") =>
            \/ pc = "registered"
            \/ /\ pc = "dispatch"
               /\ ei = Len(events) + 1
               /\ events' = <<>>]_vars
    /\ [][(pc = "urc" /\ pc' = "urc") => events' = events]_vars
    /\ [][(pc = "urc" /\ pc' = "poll") =>
            \/ events' = events
            \/ /\ urcQueue # <<>>
               /\ events' = Append(events, ParseUrcEvent(Head(urcQueue)))]_vars
    /\ [][(pc = "poll" /\ pc' = "hb") => (events' = events \/ events = <<>>)]_vars
    /\ [][(pc = "hb" /\ pc' = "dispatch") => (events' = events /\ ei' = 1)]_vars
    /\ [][(pc \in {"dispatch", "mt"} /\ pc' \in {"dispatch", "mt"}) =>
            /\ events' = events
            /\ ei' \in {ei, ei + 1}
            /\ ei' = ei + 1 => ei <= Len(events)]_vars

\* a later tick than the first has dispatched and cleared an event of an
\* unsolicited notification, after an earlier tick did so for polled events
C13_Witness ==
    /\ pc = "urc"
    /\ events = <<>>
    /\ last_notification_check_time > 0
    /\ urcCount >= 1
    /\ urcQueue = <<>>
    /\ deletedMt # {}

\* the poll decision of a tick
PollStep == pc = "poll" /\ pc' = "hb"

\* the poll timestamp was refreshed
PollStamped == last_notification_check_time' # last_notification_check_time

\* C14 as stated: in a tick the active event mask is fetched (and the poll
\* timestamp refreshed) if and only if no unsolicited notification was dequeued
\* in that tick and at least 5 s have passed since the last poll.
C14_FetchIffNoUrc ==
    [][PollStep =>
        (PollStamped <=>
            (urc = None /\ now - last_notification_check_time >= PollInterval))]_vars

\* C14 amended: in a tick the active event mask is fetched if and only if the
\* working event set is empty, that is no unsolicited notification was dequeued
\* in that tick and the set does not hold the two initial events of the first
\* tick, and at least 5 s have passed since the last poll. A fetch reads the
\* mask into the working set and refreshes the poll timestamp whatever the mask
\* holds; without a fetch the set, the mask and the timestamp are left alone.
\* Hence two consecutive fetches are at least 5 s apart.
C14_FetchIffEmpty ==
    /\ [][PollStep =>
            IF /\ urc = None
               /\ events # <<MO_COMPLETE, MT_RECEIVED>>
               /\ now - last_notification_check_time >= PollInterval
            THEN /\ events' = GetEvents(activeMask)
                 /\ activeMask' = {}
                 /\ last_notification_check_time' = now
            ELSE /\ events' = events
                 /\ activeMask' = activeMask
                 /\ last_notification_check_time' = last_notification_check_time]_vars
    /\ [][(PollStamped /\ pc' \in Running) =>
            /\ PollStep
            /\ now - last_notification_check_time >= PollInterval]_vars

\* the mask was fetched twice, the second time empty, and a later tick on which
\* a poll was due took a notification instead
C14_Witness ==
    /\ pc = "hb"
    /\ last_notification_check_time = StartTime + TimeStep
    /\ now = StartTime + 2 * TimeStep
    /\ Len(events) = 1
    /\ urcCount >= 1

\* C14 in the large transfer: the wait loop fetches the mask only when 5 s have
\* passed since the last fetch, and each fetch refreshes the timestamp.
C14_LargeFetchApart ==
    /\ [][(pc = "wait" /\ PollStamped) =>
            /\ now - last_notification_check_time >= PollInterval
            /\ last_notification_check_time' = now
            /\ activeMask' = {}]_vars
    /\ [][(pc = "wait" /\ now' = now + SleepTime /\ ~PollStamped) =>
            /\ now - last_notification_check_time < PollInterval
            /\ activeMask' = activeMask
            /\ pc' = "wait"]_vars

\* the notification step of a tick
UrcStep == pc = "urc" /\ pc' = "poll"

\* C16: the notification queue changes in two ways only. The producer appends
\* at the tail, at any point of a tick; the notification step of a tick, which
\* happens once per tick, removes the head alone and makes it the notification
\* of the tick, its parsed event going last into the working set. So at most one
\* notification is dequeued per tick, in arrival order, and none is lost or
\* reordered; with an empty queue the step goes on without a notification.
C16_OnePerTickInOrder ==
    /\ [][urcQueue' # urcQueue =>
            \/ /\ \E raw \in UrcKinds : urcQueue' = Append(urcQueue, raw)
               /\ UNCHANGED <<pc, urc, events>>
            \/ /\ UrcStep
               /\ urcQueue # <<>>
               /\ urcQueue' = Tail(urcQueue)
               /\ urc' = Head(urcQueue)
               /\ events' = Append(events, ParseUrcEvent(Head(urcQueue)))]_vars
    /\ [][UrcStep => (urcQueue # <<>> <=> urcQueue' # urcQueue)]_vars
    /\ [][(UrcStep /\ urcQueue = <<>>) => (urc' = None /\ events' = events)]_vars
    /\ [](pc = "urc" => ENABLED GetUrc)

\* three notifications were appended during the ticks; the loop has taken the
\* first two in two ticks and the third is still queued
C16_Witness ==
    /\ pc = "poll"
    /\ urcCount = 3
    /\ Len(urcQueue) = 1
    /\ urc = NETWORK_REGISTERED
    /\ events = <<NETWORK_REGISTERED>>
    /\ urcQueue[1] = MT_RECEIVED

\* the states of the control loop and the moves between them
StateMoves ==
    {<<"disconnected", "connected">>, <<"connected", "registered">>,
     <<"registered", "urc">>}
    \cup (Running \X Running) \cup (Running \X {"exited"})

\* C17: the loop goes from Disconnected to Connected, EventsRegistered, Running
\* and (by disconnect) Disconnected, never back and never skipping one, and is
\* connected exactly in the three states in between; an uncaught exception (C3)
\* ends the program where it is. A failed registration does not stop it:
\* set_event_mask can return false and leave the loop in EventsRegistered, from
\* where it enters Running, and there a due poll of a set mask still puts events
\* into the working set.
C17_StateOrder ==
    /\ [][(pc' # pc /\ pc' # "crashed") => <<pc, pc'>> \in StateMoves]_vars
    /\ [](pc \in Running \cup {"connected", "registered"} => connected)
    /\ [](pc \in {"disconnected", "exited"} => ~connected)
    /\ [](pc = "connected" =>
            ENABLED (SetEventMask /\ ~events_set' /\ pc' = "registered"))
    /\ [](pc = "registered" => ENABLED (StartLoop /\ pc' = "urc"))
    /\ []((pc = "poll" /\ ~events_set /\ events = <<>> /\ activeMask # {}
              /\ now - last_notification_check_time >= PollInterval)
            => ENABLED (Poll /\ events' # <<>>))

\* the registration failed, and the loop has fetched an MT event by polling
C17_Witness ==
    /\ pc = "hb"
    /\ ~events_set
    /\ urcCount = 0
    /\ events = <<MT_RECEIVED>>
    /\ last_notification_check_time >= StartTime

\* the step that fetches and checks the MT message at position mi
MtMessageStep ==
    /\ pc = "mt"
    /\ mi <= Len(rx_queue)
    /\ mi' = mi + 1

\* the heartbeat step of a tick
HeartbeatStep == pc = "hb" /\ pc' = "dispatch"

\* C9: with interval 0 nothing is submitted; processing the MT payload
\* [255,0,0,0,60] (or another accepted value) makes the interval that value; two
\* consecutive heartbeat submissions are at least the interval apart, and with
\* transmission allowed a heartbeat is submitted on the tick at which the elapsed
\* time has reached the interval.
C9_OnePerWindow ==
    /\ [][(MtMessageStep /\ rx_queue[mi].payload \in {P60, P120}
              /\ Forwarded(MtMessageRecv(rx_queue[mi])))
            => heartbeat_interval' = rx_queue[mi].payload[5]]_vars
    /\ [][hbSubmits' # hbSubmits =>
            /\ heartbeat_interval > 0
            /\ now - lastSubmitTime >= heartbeat_interval]_vars
    /\ [][(HeartbeatStep /\ heartbeat_interval > 0 /\ txAllowed
              /\ now - last_heartbeat_time >= heartbeat_interval)
            => hbSubmits' = hbSubmits + 1]_vars

\* the interval is 60 and two heartbeats were submitted, none skipped
C9_Witness ==
    /\ heartbeat_interval = 60
    /\ hbSubmits = 2
    /\ hbSkips = 0
    /\ lastSubmitTime - StartTime >= 60

RejectedValue(payload) ==
    /\ Len(payload) = 5
    /\ payload[1] = 255
    /\ FromBytesBig(SubSeq(payload, 2, 5)) \notin 1..MaxHeartbeatInterval

\* C10: the heartbeat decision of a tick is made with the interval the tick
\* started with (the scheduler runs before the events are dispatched); the
\* interval changes only while an MT message is processed, which leaves the
\* last-send timestamp and the counter alone; a rejected reconfiguration leaves
\* the interval unchanged too.
C10_NextTick ==
    /\ [][HeartbeatStep =>
            /\ heartbeat_interval = tickInterval
            /\ (heartbeat_count' # heartbeat_count) <=>
                    (tickInterval > 0 /\ now - last_heartbeat_time >= tickInterval)]_vars
    /\ [][(heartbeat_interval' # heartbeat_interval /\ pc' \in Running) =>
            /\ MtMessageStep
            /\ last_heartbeat_time' = last_heartbeat_time
            /\ heartbeat_count' = heartbeat_count
            /\ hbSubmits' = hbSubmits]_vars
    /\ [][(MtMessageStep /\ RejectedValue(rx_queue[mi].payload)) =>
            /\ heartbeat_interval' = heartbeat_interval
            /\ last_heartbeat_time' = last_heartbeat_time
            /\ heartbeat_count' = heartbeat_count]_vars

\* a reconfiguration was accepted in a tick whose heartbeat decision was made
\* with the old interval, and a later one was rejected with the new one in place
C10_Witness ==
    /\ pc = "dispatch"
    /\ MtEventProcessed
    /\ heartbeat_interval = 60
    /\ Len(rx_queue) = 1
    /\ rx_queue[1].payload = PZero
    /\ deletedMt = {1, 2}

\* ---------------------------------------------------------------- iter_chunks_with_header alone
\* data whose bytes differ from one position to the next
Ramp(n) == [i \in 1..n |-> (i - 1) % 251]

\* the data given to the chunker: every length up to the capacity of MaxChunks
\* chunks and MaxExcess more
ChunkInputs(size) ==
    UNION {{FileData(n), Ramp(n)} : n \in 0..(MaxChunks * size + MaxExcess)}

ChunkInit ==
    /\ pc = "chunk"
    /\ chunk_size \in 1..MaxChunkSize
    /\ data \in ChunkInputs(chunk_size)
    /\ chunk_count = 0
    /\ chunk = <<>>
    /\ msg_meta = 0
    /\ ModemIdle
    /\ LoopIdle
    /\ HistInit
    /\ PureIdle

\* result = list(iter_chunks_with_header(data, chunk_size))
ChunkCall ==
    /\ pc = "chunk"
    /\ result' = iter_chunks_with_header(data, chunk_size)
    /\ pc' = "chunked"
    /\ UNCHANGED <<now, connVars, loopVars, modemVars, histVars, everTerminal,
                   largeVars, arg_payload, arg_old, readings>>

ChunkNext == ChunkCall

SpecChunk == ChunkInit /\ [][ChunkNext]_vars

\* the least number of chunks of the given size that hold n bytes
ChunkCount(n, size) == CHOOSE k \in 0..n : k * size >= n /\ (k = 0 \/ (k - 1) * size < n)

\* C11: iter_chunks_with_header(data, size) yields exactly ceil(len(data)/size)
\* frames when that count is at most 255, and fails before yielding any frame
\* when the count exceeds 255.
C11_ChunkCount ==
    pc = "chunked" =>
        IF ChunkCount(Len(data), chunk_size) <= 255
        THEN ~result.error /\ Len(result.frames) = ChunkCount(Len(data), chunk_size)
        ELSE result.error /\ result.frames = <<>>

\* data of exactly 255 chunks was chunked
C11_Witness ==
    /\ pc = "chunked"
    /\ Len(data) = 255 * chunk_size
    /\ chunk_size > 1
    /\ ~result.error
    /\ Len(result.frames) = 255

\* data of one byte more than 255 chunks was refused
C11_WitnessOversized ==
    /\ pc = "chunked"
    /\ Len(data) = 255 * chunk_size + 1
    /\ result.error

\* C11 in the large transfer: no chunk of data that needs more than 255 chunks
\* is ever submitted.
C11_OversizedNotSubmitted ==
    ChunkCount(Len(data), chunk_size) > 255 => (chunkHandles = <<>> /\ pc # "send")

\* the data slice of a frame: what follows the marker and the counter byte
SliceOf(frame) == SubSeq(frame, 4, Len(frame))

\* C12: each frame is the marker 0xFF 0xFF, one counter byte and a data slice of
\* at most size bytes (at least one); the counter is the number of frames that
\* follow, so it decreases by exactly 1 from frame to frame and is 0 on the last
\* frame; the slices, in order, are the input: every slice but the last has size
\* bytes, their lengths add up to the length of the data, and every byte of the
\* data is at its place in its slice.
C12_Framing ==
    (pc = "chunked" /\ ~result.error) =>
        LET frames == result.frames
            n == Len(frames)
        IN  /\ \A k \in 1..n :
                  /\ Len(frames[k]) >= 4
                  /\ frames[k][1] = 255
                  /\ frames[k][2] = 255
                  /\ frames[k][3] = n - k
                  /\ Len(SliceOf(frames[k])) <= chunk_size
                  /\ k < n => Len(SliceOf(frames[k])) = chunk_size
                  /\ k < n => frames[k + 1][3] = frames[k][3] - 1
            /\ n > 0 => frames[n][3] = 0
            /\ n = 0 => data = <<>>
            /\ n > 0 => (n - 1) * chunk_size + Len(SliceOf(frames[n])) = Len(data)
            /\ \A p \in 1..Len(data) :
                  data[p] = SliceOf(frames[((p - 1) \div chunk_size) + 1])[((p - 1) % chunk_size) + 1]

\* five bytes were chunked at size 2: counters 2, 1, 0 and a last slice of 1 byte
C12_Witness ==
    /\ pc = "chunked"
    /\ data = Ramp(5)
    /\ chunk_size = 2
    /\ result.frames = <<(<<255, 255, 2, 0, 1>>), (<<255, 255, 1, 2, 3>>), (<<255, 255, 0, 4>>)>>

\* ---------------------------------------------------------------- build_heartbeat alone
\* The floats of the readings are written as integers: a latitude or longitude
\* by the number of half units of 1/60000 degree (so that value * 60000 has a
\* fraction of 0 or 1/2), the SNR by the number of tenths.

\* int(x) of a float x given in half units: truncation toward zero
IntOfHalves(h) == IF h >= 0 THEN h \div 2 ELSE -((-h) \div 2)

\* int(round(x, 0)) of a float x given in tenths: ties go to the even integer
RoundOfTenths(t) ==
    LET floor == t \div 10
        rest == t - floor * 10
    IN  IF rest < 5 THEN floor
        ELSE IF rest > 5 THEN floor + 1
        ELSE IF floor % 2 = 0 THEN floor ELSE floor + 1

\* v.to_bytes(n, 'big'): the n bytes, or the OverflowError of a negative value
\* and of one that does not fit
ToBytes(v, n) ==
    IF v < 0 \/ (n < 4 /\ v >= 256 ^ n)
    THEN [error |-> TRUE, bytes |-> <<>>]
    ELSE [error |-> FALSE, bytes |-> [k \in 1..n |-> (v \div (256 ^ (n - k))) % 256]]

\* v.to_bytes(4, 'big', signed=True): two's complement of a negative value
ToBytesSigned4(v) ==
    IF v >= 0 THEN ToBytes(v, 4)
    ELSE LET low == (v + 2147483647) + 1
         IN  [error |-> FALSE,
              bytes |-> <<128 + (low \div 16777216), (low \div 65536) % 256,
                          (low \div 256) % 256, low % 256>>]

\* build_heartbeat(modem): the payload, or the exception of a to_bytes call
build_heartbeat(modem) ==
    LET sin_byte == 255
        ts == modem.ts
        lat_enc == IntOfHalves(modem.lat)
        lon_enc == IntOfHalves(modem.lon)
        sq == modem.sq
        snr_enc == RoundOfTenths(modem.snr)
        parts == <<ToBytes(sin_byte, 1), ToBytes(ts, 4), ToBytesSigned4(lat_enc),
                   ToBytesSigned4(lon_enc), ToBytes(sq, 1), ToBytes(snr_enc, 1)>>
    IN  IF \E k \in DOMAIN parts : parts[k].error
        THEN [error |-> TRUE, payload |-> <<>>]
        ELSE [error |-> FALSE,
              payload |-> parts[1].bytes \o parts[2].bytes \o parts[3].bytes
                          \o parts[4].bytes \o parts[5].bytes \o parts[6].bytes]

\* get_system_time(): u32 values (up to the largest integer of the model checker)
SystemTimes == {0, 1, StartTime, 2147483647}
\* get_location(): latitudes of [-90, 90] in half units, the bounds included
Latitudes == {-10800000, -3, -1, 0, 1, 3, 10800000}
\* longitudes of [-180, 180] in half units
Longitudes == {-21600000, -3, 0, 1, 21600000}
\* get_signal_quality().value
SignalQualities == {0, 5}
\* get_snr() in tenths: -1.0, -0.4, 0.0, 0.5, 1.5, 42.6, 255.4 and 255.6
SnrTenths == {-10, -4, 0, 5, 15, 426, 2554, 2556}

BeatInit ==
    /\ pc = "build"
    /\ readings \in [ts : SystemTimes, lat : Latitudes, lon : Longitudes,
                      sq : SignalQualities, snr : SnrTenths]
    /\ arg_payload = <<>>
    /\ arg_old = 0
    /\ result = -1
    /\ ModemIdle
    /\ LoopIdle
    /\ HistInit
    /\ LargeIdle

\* result = build_heartbeat(modem)
BeatCall ==
    /\ pc = "build"
    /\ result' = build_heartbeat(readings)
    /\ pc' = "built"
    /\ UNCHANGED <<now, connVars, loopVars, modemVars, histVars, everTerminal,
                   largeVars, arg_payload, arg_old, readings>>

BeatNext == BeatCall

SpecBeat == BeatInit /\ [][BeatNext]_vars

\* C18: for every timestamp, location, signal quality and SNR build_heartbeat
\* returns 15 bytes with byte0 = 255 and never fails.
C18_FifteenBytes ==
    pc = "built" =>
        /\ ~result.error
        /\ Len(result.payload) = 15
        /\ result.payload[1] = 255

\* the signed big-endian value of four bytes
FromBytesSigned4(bs) ==
    IF bs[1] < 128 THEN FromBytesBig(bs)
    ELSE (FromBytesBig(<<bs[1] - 128, bs[2], bs[3], bs[4]>>) - 2147483647) - 1

\* C18 for an SNR that rounds to 0..255: the payload is 15 bytes, [255][u32
\* time][i32 lat*60000][i32 lon*60000][u8 signal][u8 round(snr)], big-endian, the
\* encoded latitude and longitude within one unit of the value, toward zero; any
\* other SNR makes the call fail.
C18_LayoutInRange ==
    pc = "built" =>
        IF RoundOfTenths(readings.snr) \in 0..255
        THEN /\ ~result.error
             /\ Len(result.payload) = 15
             /\ result.payload[1] = 255
             /\ FromBytesBig(SubSeq(result.payload, 2, 5)) = readings.ts
             /\ LET lat == FromBytesSigned4(SubSeq(result.payload, 6, 9))
                    lon == FromBytesSigned4(SubSeq(result.payload, 10, 13))
                IN  /\ 2 * lat \in {readings.lat, readings.lat - 1, readings.lat + 1}
                    /\ 2 * lon \in {readings.lon, readings.lon - 1, readings.lon + 1}
                    /\ (readings.lat >= 0 => 2 * lat <= readings.lat)
                    /\ (readings.lat <= 0 => 2 * lat >= readings.lat)
                    /\ (readings.lon >= 0 => 2 * lon <= readings.lon)
                    /\ (readings.lon <= 0 => 2 * lon >= readings.lon)
             /\ result.payload[14] = readings.sq
             /\ 10 * result.payload[15] - readings.snr \in -5..5
        ELSE result.error

\* ---------------------------------------------------------------- reconfigure_hearbeat alone
\* the byte values payloads are made of: the bytes of 60, 86400 and 86401, the
\* discriminator 255 and another first byte
ByteValues == {0, 1, 60, 81, 128, 129, 255}

Payloads == UNION {[1..n -> ByteValues] : n \in 0..MaxPayloadLen}

ReconfInit ==
    /\ pc = "call"
    /\ arg_payload \in Payloads
    /\ arg_old \in {0, 60}
    /\ readings = NoReadings
    /\ result = -1
    /\ ModemIdle
    /\ LoopIdle
    /\ HistInit
    /\ LargeIdle

\* result = reconfigure_hearbeat(payload, old_interval)
ReconfCall ==
    /\ pc = "call"
    /\ result' = reconfigure_hearbeat(arg_payload, arg_old)
    /\ pc' = "returned"
    /\ UNCHANGED <<now, connVars, loopVars, modemVars, histVars, everTerminal,
                   largeVars, arg_payload, arg_old, readings>>

ReconfNext == ReconfCall

SpecReconf == ReconfInit /\ [][ReconfNext]_vars

\* the unsigned big-endian value of the bytes that follow byte0, four at most;
\* with four bytes and the first of them not 0 the value is 2^24 or more, which
\* is written 2^24
EncodedInterval(payload) ==
    LET n == IF Len(payload) < 5 THEN Len(payload) ELSE 5
        weight(k) == 256 ^ (n - k)
        partial[k \in 1..n] == IF k = 1 THEN 0 ELSE partial[k - 1] + payload[k] * weight(k)
    IN  IF n < 2 THEN 0
        ELSE IF n = 5 /\ payload[2] # 0 THEN 256 ^ 3
        ELSE partial[n]

====
